---- MODULE Spec2Model ----
(***************************************************************************)
(* Model of danap27/chile_specific_humidity, src/research_helpers.py:      *)
(* the climatology functions monthly_mean, monthly_regression and          *)
(* monthly_anomaly_series over numpy arrays, and the directory scan        *)
(* available_complementary_variables.                                      *)
(*                                                                         *)
(* Arrays are records [shape, data] with the data in C (row-major) order,  *)
(* as numpy stores them, so that slicing, reshape, tile and broadcasting   *)
(* are computed on indices the way numpy computes them.                    *)
(*                                                                         *)
(* Array elements are binary floating-point numbers.  float64 has a        *)
(* 53-bit significand; the model keeps the same arithmetic (every          *)
(* operation is the exact result rounded to nearest, ties to even) with a  *)
(* significand of Precision bits and a smallest quantum of 2^-FracBits.    *)
(* A finite element is <<"num", n>>, n counted in quanta; NaN is           *)
(* <<"nan", 0>>.                                                           *)
(***************************************************************************)
EXTENDS Integers, Sequences, FiniteSets

(***************************************************************************)
(* Bounds of the model.                                                    *)
(***************************************************************************)
Precision == 4
FracBits == 1

(***************************************************************************)
(* Floating-point arithmetic.                                              *)
(***************************************************************************)
RECURSIVE Pow2(_)
Pow2(k) == IF k <= 0 THEN 1 ELSE 2 * Pow2(k - 1)

Abs(x) == IF x < 0 THEN -x ELSE x

Max(x, y) == IF x < y THEN y ELSE x

RECURSIVE BitLength(_)
BitLength(n) == IF n <= 0 THEN 0 ELSE 1 + BitLength(n \div 2)

RECURSIVE FixRoot(_, _)
\* the integer square root of n, found from the estimate r
FixRoot(r, n) ==
    IF r * r > n THEN FixRoot(r - 1, n)
    ELSE IF (r + 1) * (r + 1) <= n THEN FixRoot(r + 1, n)
    ELSE r

\* floor(b * sqrt(3)) for an integer b
FloorSqrt3(b) ==
    IF b >= 0 THEN FixRoot((b * 1732) \div 1000, 3 * b * b)
    ELSE -FixRoot(((-b) * 1732) \div 1000, 3 * b * b) - 1

\* floor((a + b*sqrt(3)) / d) for integers a, b and d > 0
FloorQ(a, b, d) == (a + FloorSqrt3(b)) \div d

\* (a + b*sqrt(3)) / d rounded to the nearest integer, ties to even
RoundNearestEven(a, b, d) ==
    LET t == FloorQ(2 * a, 2 * b, d)
        m0 == t \div 2
        exact == b = 0 /\ (2 * a) % d = 0
    IN  IF t % 2 = 1 /\ (~exact \/ m0 % 2 = 1) THEN m0 + 1 ELSE m0

\* (a + b*sqrt(3)) / d quanta rounded to a float of Precision significant bits
RoundFloat(a, b, d) ==
    LET fl == FloorQ(a, b, d)
        mag == IF fl >= 0 THEN fl ELSE FloorQ(-a, -b, d)
        k == Max(0, BitLength(mag) - Precision)
    IN  Pow2(k) * RoundNearestEven(a, b, d * Pow2(k))

NaN == <<"nan", 0>>

Num(n) == <<"num", n>>

IsNaN(x) == x[1] = "nan"

\* the elements of an array are computed when the array is made, not when they
\* are read: a sequence given by a rule, as the sequence of its values
Stored(s) == SubSeq(s, 1, Len(s))

\* a Python number v as a float64 array element
FromInt(v) == Num(RoundFloat(v * Pow2(FracBits), 0, 1))

FAdd(x, y) == IF IsNaN(x) \/ IsNaN(y) THEN NaN ELSE Num(RoundFloat(x[2] + y[2], 0, 1))

FSub(x, y) == IF IsNaN(x) \/ IsNaN(y) THEN NaN ELSE Num(RoundFloat(x[2] - y[2], 0, 1))

\* x / c for a count c; 0.0 / 0 is NaN
FDivCount(x, c) == IF IsNaN(x) \/ c = 0 THEN NaN ELSE Num(RoundFloat(x[2], 0, c))

(***************************************************************************)
(* numpy arrays: [buf, shape, data].  buf names the memory the array reads *)
(* and writes: "caller" for an array the caller passed in (and for every   *)
(* view of it), "new" for an array an operation allocated.                 *)
(***************************************************************************)
MonthsPerYear == 12

RECURSIVE Product(_)
Product(dims) == IF dims = <<>> THEN 1 ELSE Head(dims) * Product(Tail(dims))

Size(a) == Product(a.shape)

\* position of element [t, i, j] (0-based) in the C-ordered data of a 3-D array
Index3(shape, t, i, j) == (t * shape[2] + i) * shape[3] + j + 1

At3(a, t, i, j) == a.data[Index3(a.shape, t, i, j)]

SameArray(a, b) == a.shape = b.shape /\ a.data = b.data

\* the series itself in place of time_series[:complete_years*12]
SliceTimeWhole(a, n) == a

\* a[:n] of a 3-D array: a view of the leading rows
SliceTime(a, n) ==
    LET rows == IF n < a.shape[1] THEN n ELSE a.shape[1]
    IN  [buf |-> a.buf,
         shape |-> <<rows, a.shape[2], a.shape[3]>>,
         data |-> SubSeq(a.data, 1, rows * a.shape[2] * a.shape[3])]

\* a.reshape(-1, 12, n_lat, n_lon): numpy infers the leading dimension from the
\* size and raises ValueError when the size is no multiple of the rest
Reshape(a, n_lat, n_lon) ==
    LET known == MonthsPerYear * n_lat * n_lon
    IN  IF known = 0 \/ Size(a) % known # 0
        THEN [err |-> "ValueError"]
        ELSE [err |-> "none",
              val |-> [buf |-> a.buf,
                       shape |-> <<Size(a) \div known, MonthsPerYear, n_lat, n_lon>>,
                       data |-> a.data]]

RECURSIVE SumFrom(_, _, _, _)
\* data[pos] + data[pos + stride] + ... over count elements, added in order
SumFrom(data, pos, stride, count) ==
    IF count = 0 THEN Num(0)
    ELSE FAdd(SumFrom(data, pos, stride, count - 1), data[pos + (count - 1) * stride])

\* the sum divided by count - 1, as a sample statistic (ddof=1) would be
MeanAxis0Sample(r) ==
    LET count == r.shape[1]
        inner == r.shape[2] * r.shape[3] * r.shape[4]
    IN  [buf |-> "new",
         shape |-> <<r.shape[2], r.shape[3], r.shape[4]>>,
         data |-> Stored([k \in 1..inner |->
                     FDivCount(SumFrom(r.data, k, inner, count), count - 1)])]

\* np.mean(r, axis=0) of a 4-D array: the sum over the leading axis divided by
\* its length; over an empty axis the result is NaN
MeanAxis0(r) ==
    LET count == r.shape[1]
        inner == r.shape[2] * r.shape[3] * r.shape[4]
    IN  [buf |-> "new",
         shape |-> <<r.shape[2], r.shape[3], r.shape[4]>>,
         data |-> Stored([k \in 1..inner |->
                     FDivCount(SumFrom(r.data, k, inner, count), count)])]

monthly_mean(time_series, lat, lon) ==
    LET complete_years == time_series.shape[1] \div MonthsPerYear
        grouped == Reshape(SliceTime(time_series, complete_years * MonthsPerYear),
                           lat.shape[1], lon.shape[1])
    IN  IF grouped.err # "none" THEN [err |-> grouped.err, out |-> <<>>]
        ELSE [err |-> "none", out |-> <<MeanAxis0(grouped.val)>>]

(***************************************************************************)
(* monthly_regression.  The predictors hold cosines and sines of multiples *)
(* of pi/6, all of them halves of numbers p + q*sqrt(3) with p, q          *)
(* integers; <<p, q>> stands for p + q*sqrt(3).  The least-squares fit is  *)
(* computed on these numbers exactly and each fitted value is rounded once *)
(* to a float.                                                             *)
(***************************************************************************)
NumPredictors == 5

Z3Add(u, v) == <<u[1] + v[1], u[2] + v[2]>>

Z3Mul(u, v) == <<u[1] * v[1] + 3 * u[2] * v[2], u[1] * v[2] + u[2] * v[1]>>

Z3Scale(c, u) == <<c * u[1], c * u[2]>>

\* 2 * cos(k * pi / 6)
TwoCos(k) ==
    LET r == k % MonthsPerYear
    IN  CASE r = 0 -> <<2, 0>>
          [] r \in {1, 11} -> <<0, 1>>
          [] r \in {2, 10} -> <<1, 0>>
          [] r \in {3, 9} -> <<0, 0>>
          [] r \in {4, 8} -> <<-1, 0>>
          [] r \in {5, 7} -> <<0, -1>>
          [] r = 6 -> <<-2, 0>>

\* 2 * sin(k * pi / 6) = 2 * cos((k - 3) * pi / 6)
TwoSin(k) == TwoCos(k - 3)

\* 2 * predictors[row, col] for time = row + 1 in np.arange(1, 13); col is 0-based
predictors(row, col) ==
    LET time == row + 1
    IN  CASE col = 0 -> <<2, 0>>
          [] col = 1 -> TwoCos(time)
          [] col = 2 -> TwoSin(time)
          [] col = 3 -> TwoCos(2 * time)
          [] col = 4 -> TwoSin(2 * time)

RECURSIVE Z3Sum(_, _)
\* f[1] + ... + f[n]
Z3Sum(f, n) == IF n = 0 THEN <<0, 0>> ELSE Z3Add(Z3Sum(f, n - 1), f[n])

\* entry [c, d] of (2 * predictors)^T (2 * predictors)
Gram(c, d) ==
    Z3Sum([r \in 1..MonthsPerYear |-> Z3Mul(predictors(r - 1, c), predictors(r - 1, d))],
          MonthsPerYear)

\* the matrix 2 * predictors, rows and columns counted from 1
PredictorMatrix ==
    Stored([r \in 1..MonthsPerYear |->
               Stored([c \in 1..NumPredictors |-> predictors(r - 1, c - 1)])])

\* Gram[0, 0] / Gram[c, c] for every column c, counted from 1
ColumnWeights ==
    Stored([c \in 1..NumPredictors |-> Gram(0, 0)[1] \div Gram(c - 1, c - 1)[1]])

\* the columns of predictors are orthogonal, so the normal equations of the
\* least-squares problem are diagonal, and their diagonal is rational
PredictorsOrthogonal ==
    \A c, d \in 0..(NumPredictors - 1) :
        /\ c # d => Gram(c, d) = <<0, 0>>
        /\ Gram(c, c)[2] = 0
        /\ Gram(c, c)[1] > 0
        /\ Gram(0, 0)[1] % Gram(c, c)[1] = 0

\* np.linalg.lstsq(predictors, y)[0] followed by np.matmul(predictors, .):
\* coefficient c is (column c . y) / (column c . column c); the fitted value of a
\* row is the sum of predictor * coefficient.  y is given in quanta; the result is
\* <<p, q, d>>, the fitted values being (p + q*sqrt(3)) / d quanta.
FittedExact(y) ==
    LET common == Gram(0, 0)[1]
        dot == Stored([c \in 1..NumPredictors |->
                   Z3Sum([r \in 1..MonthsPerYear |-> Z3Scale(y[r], PredictorMatrix[r][c])],
                         MonthsPerYear)])
        term(r, c) == Z3Scale(ColumnWeights[c], Z3Mul(PredictorMatrix[r][c], dot[c]))
    IN  Stored([r \in 1..MonthsPerYear |->
            LET s == Z3Sum([c \in 1..NumPredictors |-> term(r, c)], NumPredictors)
            IN  <<s[1], s[2], common>>])

monthly_regression(time_series) ==
    LET num_periods == time_series.shape[1]
    IN  IF num_periods # MonthsPerYear
        THEN \* predictors[:, 1] = <12 values> cannot fill a column of another length
             [err |-> "ValueError", out |-> <<>>]
        ELSE IF \E n \in 1..num_periods : IsNaN(time_series.data[n])
        THEN [err |-> "none",
              out |-> <<[buf |-> "new", shape |-> <<num_periods>>,
                         data |-> Stored([n \in 1..num_periods |-> NaN])]>>]
        ELSE LET fit == FittedExact(Stored([n \in 1..num_periods |-> time_series.data[n][2]]))
             IN  [err |-> "none",
                  out |-> <<[buf |-> "new", shape |-> <<num_periods>>,
                             data |-> Stored([n \in 1..num_periods |->
                                          Num(RoundFloat(fit[n][1], fit[n][2],
                                                         fit[n][3]))])]>>]

(***************************************************************************)
(* The array operations of monthly_anomaly_series.                         *)
(***************************************************************************)
\* np.zeros(shape)
Zeros(shape) ==
    [buf |-> "new", shape |-> shape, data |-> Stored([k \in 1..Product(shape) |-> Num(0)])]

\* a[:, i, j] of a 3-D array
Column(a, i, j) ==
    [buf |-> a.buf,
     shape |-> <<a.shape[1]>>,
     data |-> Stored([t \in 1..a.shape[1] |-> At3(a, t - 1, i, j)])]

\* a[:, i] = v[:, None]: the fit of one cell written to the whole row of cells
AssignRow(a, i, j, v) ==
    [a EXCEPT !.data =
        Stored([k \in 1..Size(a) |->
            IF ((k - 1) \div a.shape[3]) % a.shape[2] = i
            THEN v.data[((k - 1) \div (a.shape[2] * a.shape[3])) + 1]
            ELSE a.data[k]])]

\* a[:, i, j] = v
AssignColumn(a, i, j, v) ==
    [a EXCEPT !.data =
        Stored([k \in 1..Size(a) |->
            IF ((k - 1) \div a.shape[3]) % a.shape[2] = i /\ (k - 1) % a.shape[3] = j
            THEN v.data[((k - 1) \div (a.shape[2] * a.shape[3])) + 1]
            ELSE a.data[k]])]

\* np.repeat(a, reps, axis=0) in place of np.tile: every row reps times in a row
TileRepeat(a, reps) ==
    [buf |-> "new",
     shape |-> <<reps * a.shape[1], a.shape[2], a.shape[3]>>,
     data |-> Stored([k \in 1..(reps * Size(a)) |->
                  At3(a, ((k - 1) \div (a.shape[2] * a.shape[3])) \div reps,
                      ((k - 1) \div a.shape[3]) % a.shape[2], (k - 1) % a.shape[3])])]

\* np.tile(a, (reps, 1, 1)): the whole of a, reps times over along the first axis
Tile(a, reps) ==
    [buf |-> "new",
     shape |-> <<reps * a.shape[1], a.shape[2], a.shape[3]>>,
     data |-> Stored([k \in 1..(reps * Size(a)) |->
                     a.data[((k - 1) % Size(a)) + 1]])]

\* numpy's broadcasting of one pair of dimensions; -1 when they do not broadcast
BroadcastDim(m, n) ==
    IF m = n THEN m ELSE IF m = 1 THEN n ELSE IF n = 1 THEN m ELSE -1

BroadcastShape(s, u) ==
    <<BroadcastDim(s[1], u[1]), BroadcastDim(s[2], u[2]), BroadcastDim(s[3], u[3])>>

\* element [t, i, j] of a as broadcast to a larger shape
AtBroadcast(a, t, i, j) ==
    At3(a, IF a.shape[1] = 1 THEN 0 ELSE t,
           IF a.shape[2] = 1 THEN 0 ELSE i,
           IF a.shape[3] = 1 THEN 0 ELSE j)

\* a - b of two 3-D arrays under broadcasting, into a new array
BroadcastDifference(a, b) ==
    LET shape == BroadcastShape(a.shape, b.shape)
    IN  IF \E d \in 1..3 : shape[d] = -1
        THEN [err |-> "ValueError"]
        ELSE [err |-> "none",
              val |-> [buf |-> "new",
                       shape |-> shape,
                       data |-> Stored([k \in 1..Product(shape) |->
                                    LET t == (k - 1) \div (shape[2] * shape[3])
                                        i == ((k - 1) \div shape[3]) % shape[2]
                                        j == (k - 1) % shape[3]
                                    IN  FSub(AtBroadcast(a, t, i, j),
                                             AtBroadcast(b, t, i, j))])]]

\* time_series -= fit: the difference is written into the left operand
SubtractInPlace(a, b) ==
    LET r == BroadcastDifference(a, b)
    IN  IF r.err # "none" \/ r.val.shape # a.shape THEN [err |-> "ValueError", lhs |-> a]
        ELSE [err |-> "none",
              val |-> [r.val EXCEPT !.buf = a.buf],
              lhs |-> [r.val EXCEPT !.buf = a.buf]]

\* a - b: the difference goes to a new array and the operands are left as they
\* were; lhs is the left operand as the caller sees it afterwards
Subtract(a, b) ==
    LET r == BroadcastDifference(a, b)
    IN  IF r.err # "none" THEN [err |-> r.err, lhs |-> a]
        ELSE [err |-> "none", val |-> r.val, lhs |-> a]

\* the cells in the order of the loops: for j in range(n_lon): for i in range(n_lat)
LoopOrder(n_lat, n_lon) ==
    [k \in 1..(n_lat * n_lon) |-> <<(k - 1) % n_lat, (k - 1) \div n_lat>>]

\* one pass of the loop body for cell <<i, j>>
FitCell(mean, aux, cell) ==
    LET fit == monthly_regression(Column(mean, cell[1], cell[2]))
    IN  IF fit.err # "none" THEN [err |-> fit.err, val |-> aux]
        ELSE [err |-> "none", val |-> AssignColumn(aux, cell[1], cell[2], fit.out[1])]

RECURSIVE FitCells(_, _, _)
\* the loop over the cells of order, in that order
FitCells(mean, aux, order) ==
    IF order = <<>> THEN [err |-> "none", val |-> aux]
    ELSE LET first == FitCell(mean, aux, Head(order))
         IN  IF first.err # "none" THEN first ELSE FitCells(mean, first.val, Tail(order))

\* lines 72-75: tile the fit, subtract it from the series, return the triple
FinishAnomaly(time_series, series_monthly_mean, serie_monthly_mean_fit_aux) ==
    LET complete_years == time_series.shape[1] \div MonthsPerYear
        series_monthly_mean_fit == Tile(serie_monthly_mean_fit_aux, complete_years)
        diff == Subtract(time_series, series_monthly_mean_fit)
    IN  IF diff.err # "none" THEN [err |-> diff.err, out |-> <<>>, caller |-> diff.lhs]
        ELSE [err |-> "none",
              out |-> <<diff.val, series_monthly_mean_fit, series_monthly_mean>>,
              caller |-> diff.lhs]

\* the whole function with the cells fitted in the given order
AnomalyInOrder(time_series, lat_series, lon_series, order) ==
    LET mean == monthly_mean(time_series, lat_series, lon_series)
    IN  IF mean.err # "none" THEN [err |-> mean.err, out |-> <<>>, caller |-> time_series]
        ELSE LET fit == FitCells(mean.out[1], Zeros(mean.out[1].shape), order)
             IN  IF fit.err # "none"
                 THEN [err |-> fit.err, out |-> <<>>, caller |-> time_series]
                 ELSE FinishAnomaly(time_series, mean.out[1], fit.val)

monthly_anomaly_series(time_series, lat_series, lon_series) ==
    AnomalyInOrder(time_series, lat_series, lon_series,
                   LoopOrder(lat_series.shape[1], lon_series.shape[1]))

(***************************************************************************)
(* The caller: it holds a grid and its coordinate arrays and calls the     *)
(* three functions on them, in any order, any number of times.             *)
(***************************************************************************)
MaxYears == 2
MaxDim == 2
MaxVal == 63
NumPatterns == 2
MaxN == 13

VARIABLES
    time_series,                 \* the caller's grid, shape (T, n_lat, n_lon)
    lat,                         \* the caller's latitude array
    lon,                         \* the caller's longitude array
    pc,                          \* "idle", or "loop" inside monthly_anomaly_series
    series_monthly_mean,         \* local of monthly_anomaly_series
    serie_monthly_mean_fit_aux,  \* local of monthly_anomaly_series
    done,                        \* the cells the loop has fitted
    result                       \* what the last call returned or raised

climate_vars ==
    <<time_series, lat, lon, pc, series_monthly_mean, serie_monthly_mean_fit_aux, done, result>>

VARIABLES
    tree,           \* the dataset tree: variable |-> the listing of its directory
    dict_datasets   \* what available_complementary_variables returned last

dirs_vars == <<tree, dict_datasets>>

NoArray == [buf |-> "new", shape |-> <<0, 0, 0>>, data |-> <<>>]

NoResult == [fn |-> "none", src |-> "none", arg |-> NoArray, err |-> "none", out |-> <<>>]

\* the value of the grid at [t, i, j] under input pattern p
Value(p, t, i, j) ==
    ((p + 1) * (t % MonthsPerYear) * (t % MonthsPerYear) + (2 * p + 1) * (t \div MonthsPerYear)
        + 3 * i + 5 * j * p) % (MaxVal + 1)

Grid(T, n_lat, n_lon, p) ==
    [buf |-> "caller",
     shape |-> <<T, n_lat, n_lon>>,
     data |-> [k \in 1..(T * n_lat * n_lon) |->
                  FromInt(Value(p, (k - 1) \div (n_lat * n_lon),
                                ((k - 1) \div n_lon) % n_lat, (k - 1) % n_lon))]]

Coordinates(n) ==
    [buf |-> "caller", shape |-> <<n>>, data |-> [k \in 1..n |-> FromInt(k)]]

\* an array a call returned, passed back in as an argument
AsArgument(a) == [a EXCEPT !.buf = "caller"]

\* the lengths of the time axis: up to MaxYears whole years, alone or with a
\* partial year of 1 or 11 months after them
Lengths == {MonthsPerYear * y + r : y \in 0..MaxYears, r \in {0, 1, MonthsPerYear - 1}}

ClimateInit ==
    /\ \E T \in Lengths, n_lat \in 1..MaxDim, n_lon \in 1..MaxDim, p \in 1..NumPatterns :
           time_series = Grid(T, n_lat, n_lon, p)
    /\ \E n \in 1..MaxDim : lat = Coordinates(n)
    /\ \E n \in 1..MaxDim : lon = Coordinates(n)
    /\ pc = "idle"
    /\ series_monthly_mean = NoArray
    /\ serie_monthly_mean_fit_aux = NoArray
    /\ done = {}
    /\ result = NoResult

Cells == {<<i, j>> : i \in 0..(lat.shape[1] - 1), j \in 0..(lon.shape[1] - 1)}

CallMonthlyMean ==
    /\ pc = "idle"
    /\ result = NoResult
    /\ LET r == monthly_mean(time_series, lat, lon)
       IN  result' = [fn |-> "monthly_mean", src |-> "time_series", arg |-> time_series,
                      err |-> r.err, out |-> r.out]
    /\ UNCHANGED <<time_series, lat, lon, pc, series_monthly_mean,
                   serie_monthly_mean_fit_aux, done, dirs_vars>>

\* the caller feeds the field monthly_mean returned back into monthly_mean
CallMonthlyMeanOfMean ==
    /\ pc = "idle"
    /\ result.fn = "monthly_mean"
    /\ result.err = "none"
    /\ LET field == AsArgument(result.out[1])
           r == monthly_mean(field, lat, lon)
       IN  result' = [fn |-> "monthly_mean", src |-> "monthly_mean", arg |-> field,
                      err |-> r.err, out |-> r.out]
    /\ UNCHANGED <<time_series, lat, lon, pc, series_monthly_mean,
                   serie_monthly_mean_fit_aux, done, dirs_vars>>

\* the caller passes the first n values of cell [0, 0] to monthly_regression
CallMonthlyRegression ==
    /\ pc = "idle"
    /\ result = NoResult
    /\ \E n \in 0..MaxN :
           /\ n <= time_series.shape[1]
           /\ LET series == Column(SliceTime(time_series, n), 0, 0)
                  r == monthly_regression(series)
              IN  result' = [fn |-> "monthly_regression", src |-> "time_series",
                             arg |-> series, err |-> r.err, out |-> r.out]
    /\ UNCHANGED <<time_series, lat, lon, pc, series_monthly_mean,
                   serie_monthly_mean_fit_aux, done, dirs_vars>>

\* monthly_anomaly_series, lines 65-67
BeginAnomaly ==
    /\ pc = "idle"
    /\ result = NoResult
    /\ LET mean == monthly_mean(time_series, lat, lon)
       IN  IF mean.err # "none"
           THEN /\ result' = [fn |-> "monthly_anomaly_series", src |-> "time_series",
                              arg |-> time_series, err |-> mean.err, out |-> <<>>]
                /\ UNCHANGED <<pc, series_monthly_mean, serie_monthly_mean_fit_aux>>
           ELSE /\ result' = NoResult
                /\ pc' = "loop"
                /\ series_monthly_mean' = mean.out[1]
                /\ serie_monthly_mean_fit_aux' = Zeros(mean.out[1].shape)
    /\ done' = {}
    /\ UNCHANGED <<time_series, lat, lon, dirs_vars>>

\* the loop body, lines 70-71, for one cell
RegressCell(cell) ==
    LET fit == FitCell(series_monthly_mean, serie_monthly_mean_fit_aux, cell)
    IN  /\ IF fit.err # "none"
           THEN /\ result' = [fn |-> "monthly_anomaly_series", src |-> "time_series",
                              arg |-> time_series, err |-> fit.err, out |-> <<>>]
                /\ pc' = "idle"
                /\ series_monthly_mean' = NoArray
                /\ serie_monthly_mean_fit_aux' = NoArray
                /\ done' = {}
           ELSE /\ serie_monthly_mean_fit_aux' = fit.val
                /\ done' = done \cup {cell}
                /\ UNCHANGED <<result, pc, series_monthly_mean>>
        /\ UNCHANGED <<time_series, lat, lon, dirs_vars>>

\* the loops of lines 68-69 take the cells in LoopOrder
RegressNextCell ==
    /\ pc = "loop"
    /\ done # Cells
    /\ RegressCell(LoopOrder(lat.shape[1], lon.shape[1])[Cardinality(done) + 1])

\* lines 72-75
ReturnAnomaly ==
    /\ pc = "loop"
    /\ done = Cells
    /\ LET r == FinishAnomaly(time_series, series_monthly_mean, serie_monthly_mean_fit_aux)
       IN  /\ result' = [fn |-> "monthly_anomaly_series", src |-> "time_series",
                         arg |-> time_series, err |-> r.err, out |-> r.out]
           /\ time_series' = r.caller
    /\ pc' = "idle"
    /\ series_monthly_mean' = NoArray
    /\ serie_monthly_mean_fit_aux' = NoArray
    /\ done' = {}
    /\ UNCHANGED <<lat, lon, dirs_vars>>

\* the caller is done with what the last call returned
Discard ==
    /\ pc = "idle"
    /\ result # NoResult
    /\ result' = NoResult
    /\ UNCHANGED <<time_series, lat, lon, pc, series_monthly_mean,
                   serie_monthly_mean_fit_aux, done, dirs_vars>>

\* the cells may be fitted in any order (a parallel or vectorised loop)
RegressAnyCell ==
    /\ pc = "loop"
    /\ \E cell \in Cells \ done : RegressCell(cell)

(***************************************************************************)
(* available_complementary_variables.  A string is a sequence of           *)
(* characters; a directory listing is a sequence of entries [name, isdir]  *)
(* in the order os.listdir returns them.                                   *)
(***************************************************************************)
MaxEntries == 3

RECURSIVE Split(_)
\* s.split('_')
Split(s) ==
    IF \A k \in 1..Len(s) : s[k] # "_" THEN <<s>>
    ELSE LET k == CHOOSE k \in 1..Len(s) : s[k] = "_" /\ \A m \in 1..(k - 1) : s[m] # "_"
         IN  <<SubSeq(s, 1, k - 1)>> \o Split(SubSeq(s, k + 1, Len(s)))

RECURSIVE Join(_)
\* '_'.join(fields)
Join(fields) ==
    IF fields = <<>> THEN <<>>
    ELSE IF Len(fields) = 1 THEN fields[1]
    ELSE fields[1] \o <<"_">> \o Join(Tail(fields))

\* [1:] in place of [1:-1]: the time frequency stays in the characteristics
StripFieldsKeepLast(name) == Join(SubSeq(Split(name), 2, Len(Split(name))))

\* '_'.join(name.split('_')[1:-1])
StripFields(name) == Join(SubSeq(Split(name), 2, Len(Split(name)) - 1))

\* name.split('_')[0]
FirstField(name) == Split(name)[1]

\* [f for f in os.listdir(path) if os.path.isdir(os.path.join(path, f))]
ListDirs(listing) ==
    LET IsDir(e) == e.isdir
        dirs == SelectSeq(listing, IsDir)
    IN  [n \in 1..Len(dirs) |-> dirs[n].name]

Range(f) == {f[n] : n \in DOMAIN f}

RECURSIVE Hits(_, _, _)
\* the indices i <= n, in order, of the complementary variables whose datasets hold ds
Hits(datasets, ds, n) ==
    IF n = 0 THEN <<>>
    ELSE IF ds \in Range(datasets[n]) THEN Append(Hits(datasets, ds, n - 1), n)
    ELSE Hits(datasets, ds, n - 1)

\* names.append(complementary_variables_name[i][0]) for every hit i
HitName(names, i) == names[i][1]

RECURSIVE CountDatasets(_, _, _, _)
\* the loop of lines 169-180 over the first n primary datasets
CountDatasets(primary, datasets, names, n) ==
    IF n = 0 THEN <<>>
    ELSE LET dict == CountDatasets(primary, datasets, names, n - 1)
             hits == Hits(datasets, primary[n], Len(datasets))
             count == Len(hits)
             entry == <<primary[n], [h \in 1..count |-> HitName(names, hits[h])]>>
         IN  [c \in DOMAIN dict \cup {count} |->
                 IF c \in DOMAIN dict
                 THEN (IF c = count THEN Append(dict[c], entry) ELSE dict[c])
                 ELSE <<entry>>]

\* dict_datasets is a function from the counts that occur to the list under each;
\* a Python dict has no key 0 unless a dataset put it there, so its keys start
\* wherever the counts do
available_complementary_variables(fs, primary_variable, complementary_variables) ==
    LET primary_variable_datasets ==
            LET dirs == ListDirs(fs[primary_variable])
            IN  [n \in 1..Len(dirs) |-> StripFields(dirs[n])]
        listings ==
            [i \in 1..Len(complementary_variables) |-> ListDirs(fs[complementary_variables[i]])]
        complementary_variables_name ==
            [i \in 1..Len(listings) |->
                [n \in 1..Len(listings[i]) |-> FirstField(listings[i][n])]]
        complementary_variables_datasets ==
            [i \in 1..Len(listings) |->
                [n \in 1..Len(listings[i]) |-> StripFields(listings[i][n])]]
    IN  CountDatasets(primary_variable_datasets, complementary_variables_datasets,
                      complementary_variables_name, Len(primary_variable_datasets))

\* the variables of the tree: huss is the primary one, tas and pr complement it
PrimaryVariable == <<"h", "u", "s", "s">>

ComplementaryVariables == << <<"t", "a", "s">>, <<"p", "r">> >>

Variables == {PrimaryVariable} \cup Range(ComplementaryVariables)

\* region_driving-model_..._rcm-version, the fields between variable and frequency
Characteristics == { <<"E", "_", "A">>, <<"F">> }

Frequencies == { <<"m">>, <<"d">> }

\* %s(variable)_..._%s(time_frequency), the format of line 148
FolderName(v, c, f) == v \o <<"_">> \o c \o <<"_">> \o f

NoDict == <<"none">>

DirsInit ==
    /\ tree = [v \in Variables |-> <<>>]
    /\ dict_datasets = NoDict

\* a dataset folder, or a plain file of such a name, appears in a variable's directory
AddEntry ==
    /\ dict_datasets = NoDict
    /\ \E v \in Variables, c \in Characteristics, f \in Frequencies, isdir \in BOOLEAN :
           LET name == FolderName(v, c, f)
           IN  /\ \A n \in 1..Len(tree[v]) : tree[v][n].name # name
               /\ Len(tree[PrimaryVariable]) + Len(tree[ComplementaryVariables[1]])
                      + Len(tree[ComplementaryVariables[2]]) < MaxEntries
               /\ tree' = [tree EXCEPT ![v] = Append(@, [name |-> name, isdir |-> isdir])]
    /\ UNCHANGED <<dict_datasets, climate_vars>>

CallAvailable ==
    /\ dict_datasets = NoDict
    /\ dict_datasets' = <<"dict", available_complementary_variables(
                                      tree, PrimaryVariable, ComplementaryVariables)>>
    /\ UNCHANGED <<tree, climate_vars>>

DiscardDict ==
    /\ dict_datasets # NoDict
    /\ dict_datasets' = NoDict
    /\ UNCHANGED <<tree, climate_vars>>

(***************************************************************************)
(* Specifications.                                                         *)
(*   Spec          the caller of the climatology functions, the loop of    *)
(*                 monthly_anomaly_series in the order of the code         *)
(*   SpecAnyOrder  monthly_anomaly_series with the cells in any order      *)
(*   SpecDirs      the dataset tree and available_complementary_variables  *)
(***************************************************************************)
vars == <<climate_vars, dirs_vars>>

Init == ClimateInit /\ DirsInit

Next ==
    \/ Discard
    \/ CallMonthlyMean
    \/ CallMonthlyMeanOfMean
    \/ CallMonthlyRegression
    \/ BeginAnomaly
    \/ RegressNextCell
    \/ ReturnAnomaly

Spec == Init /\ [][Next]_vars

NextAnyOrder ==
    \/ Discard
    \/ BeginAnomaly
    \/ RegressAnyCell
    \/ ReturnAnomaly

\* the loop in any order is followed for grids passed with their own coordinate
\* arrays: the cells of the loop are the cells of the grid
InitAnyOrder ==
    /\ Init
    /\ time_series.shape[2] = lat.shape[1]
    /\ time_series.shape[3] = lon.shape[1]

SpecAnyOrder == InitAnyOrder /\ [][NextAnyOrder]_vars

\* the caller's grid while the dataset tree is scanned
InitDirs ==
    /\ time_series = Grid(0, 1, 1, 1)
    /\ lat = Coordinates(1)
    /\ lon = Coordinates(1)
    /\ pc = "idle"
    /\ series_monthly_mean = NoArray
    /\ serie_monthly_mean_fit_aux = NoArray
    /\ done = {}
    /\ result = NoResult
    /\ DirsInit

NextDirs ==
    \/ AddEntry
    \/ CallAvailable
    \/ DiscardDict

SpecDirs == InitDirs /\ [][NextDirs]_vars

(***************************************************************************)
(* The claims.                                                             *)
(***************************************************************************)
\* the coordinate arrays have the lengths of the grid's second and third dimension
Matching(grid) == lat.shape[1] = grid.shape[2] /\ lon.shape[1] = grid.shape[3]

CompleteYears(grid) == grid.shape[1] \div MonthsPerYear

\* C1: for every grid of T time steps with matching lat/lon arrays,
\* monthly_anomaly_series returns an anomaly series of floor(T/12)*12 time steps.
C1_AnomalyLengthIsTruncated ==
    (result.fn = "monthly_anomaly_series" /\ Matching(result.arg))
        => /\ result.err = "none"
           /\ result.out # <<>>
           /\ result.out[1].shape[1] = CompleteYears(result.arg) * MonthsPerYear

\* C2: monthly_mean of a grid of fewer than 12 time steps ends in an error and
\* returns no field; of a grid of exactly 12 time steps it returns the 12-entry
\* field that is the one year itself.
C2_ShortSeriesIsRefused ==
    (result.fn = "monthly_mean" /\ result.src = "time_series" /\ Matching(result.arg))
        => /\ result.arg.shape[1] < MonthsPerYear => (result.err # "none" /\ result.out = <<>>)
           /\ result.arg.shape[1] = MonthsPerYear
                  => /\ result.err = "none"
                     /\ result.out[1].shape[1] = MonthsPerYear
                     /\ result.out[1].data = result.arg.data

\* C3: monthly_mean and monthly_anomaly_series called with a latitude or longitude
\* array whose length differs from the grid's dimension end in an error and return
\* no arrays.
C3_ShapeMismatchIsRefused ==
    (/\ result.fn \in {"monthly_mean", "monthly_anomaly_series"}
     /\ result.src = "time_series"
     /\ ~Matching(result.arg))
        => (result.err # "none" /\ result.out = <<>>)

\* C9: monthly_regression of a one-dimensional series of any length N returns a
\* fitted series of the same length N.
C9_RegressionKeepsLength ==
    result.fn = "monthly_regression"
        => /\ result.err = "none"
           /\ result.out # <<>>
           /\ result.out[1].shape = result.arg.shape

RECURSIVE YearSum(_, _, _, _, _)
\* X[m - 1, i, j] + X[12 + m - 1, i, j] + ... over the first years years
YearSum(X, m, i, j, years) ==
    IF years = 0 THEN Num(0)
    ELSE FAdd(YearSum(X, m, i, j, years - 1),
              At3(X, MonthsPerYear * (years - 1) + m - 1, i, j))

\* the mean of calendar month m at cell [i, j] over the complete years of X
MeanOfMonth(X, m, i, j) == FDivCount(YearSum(X, m, i, j, CompleteYears(X)), CompleteYears(X))

\* C5: for every grid X of T >= 12 time steps (with its lat/lon arrays),
\* monthly_mean returns a field of exactly 12 time entries whose entry for month m
\* at cell (i, j) is the mean of X[12*y + m - 1, i, j] over the complete years y;
\* the time steps of the trailing partial year have no influence on it.
C5_MeanOverCompleteYears ==
    (/\ result.fn = "monthly_mean"
     /\ result.arg.shape[1] >= MonthsPerYear
     /\ Matching(result.arg))
        => /\ result.err = "none"
           /\ result.out # <<>>
           /\ result.out[1].shape = <<MonthsPerYear, result.arg.shape[2], result.arg.shape[3]>>
           /\ \A m \in 1..MonthsPerYear :
                  \A i \in 0..(result.arg.shape[2] - 1), j \in 0..(result.arg.shape[3] - 1) :
                      At3(result.out[1], m - 1, i, j) = MeanOfMonth(result.arg, m, i, j)

\* two complete years that differ, a partial year after them, four cells
C5_Witness ==
    /\ result.fn = "monthly_mean"
    /\ result.src = "time_series"
    /\ result.arg.shape = <<2 * MonthsPerYear + 1, 2, 2>>
    /\ Matching(result.arg)
    /\ result.err = "none"
    /\ \E m \in 1..MonthsPerYear :
           /\ At3(result.arg, m - 1, 1, 1) # At3(result.arg, MonthsPerYear + m - 1, 1, 1)
           /\ At3(result.out[1], m - 1, 1, 1) # At3(result.arg, m - 1, 1, 1)
    /\ \E m \in 1..MonthsPerYear : At3(result.out[1], m - 1, 0, 1) # At3(result.out[1], m - 1, 1, 0)

\* C6: for every grid X of T >= 12 time steps, monthly_mean applied to the field
\* monthly_mean(X), with the same lat/lon arrays, returns that field unchanged.
C6_MeanIsIdempotent ==
    (/\ result.fn = "monthly_mean"
     /\ result.src = "monthly_mean"
     /\ time_series.shape[1] >= MonthsPerYear)
        => /\ result.err = "none"
           /\ result.out # <<>>
           /\ SameArray(result.out[1], result.arg)

C6_Witness ==
    /\ result.fn = "monthly_mean"
    /\ result.src = "monthly_mean"
    /\ time_series.shape = <<2 * MonthsPerYear, 2, 2>>
    /\ Matching(time_series)
    /\ result.err = "none"
    /\ SameArray(result.out[1], result.arg)
    /\ \E k \in 1..Size(result.arg) : result.arg.data[k] # result.arg.data[1]

\* the indices [t, i, j] of a 3-D array
Indices(a) ==
    {<<t, i, j>> : t \in 0..(a.shape[1] - 1), i \in 0..(a.shape[2] - 1), j \in 0..(a.shape[3] - 1)}

\* the input truncated to its first floor(T/12)*12 time steps
Truncated(grid) == SliceTime(grid, CompleteYears(grid) * MonthsPerYear)

\* the harmonic-fit series is the 12-step per-cell fit of the monthly mean field,
\* repeated floor(T/12) times along the time axis
FitIsRepeatedCycle(grid, fit_series, mean) ==
    /\ fit_series.shape = <<CompleteYears(grid) * MonthsPerYear, mean.shape[2], mean.shape[3]>>
    /\ \A x \in Indices(fit_series) :
           At3(fit_series, x[1], x[2], x[3])
               = monthly_regression(Column(mean, x[2], x[3])).out[1].data[(x[1] % MonthsPerYear) + 1]

\* C4 as the spec states it: for every grid monthly_anomaly_series accepts,
\* anomaly_series + harmonic_fit_series == the truncated input, elementwise.
C4_AdditiveExactly ==
    (result.fn = "monthly_anomaly_series" /\ result.err = "none")
        => /\ FitIsRepeatedCycle(result.arg, result.out[2], result.out[3])
           /\ \A x \in Indices(result.out[1]) :
                  FAdd(At3(result.out[1], x[1], x[2], x[3]),
                       AtBroadcast(result.out[2], x[1], x[2], x[3]))
                      = AtBroadcast(Truncated(result.arg), x[1], x[2], x[3])

\* the spacing of the floats around a value of d quanta
Ulp(d) == Pow2(Max(0, BitLength(Abs(d)) - Precision))

\* C4 as amended: for every grid monthly_anomaly_series accepts, the harmonic-fit
\* series is the per-cell fit repeated floor(T/12) times, and every element of the
\* anomaly series is the floating-point difference of the truncated input and the
\* harmonic-fit series: anomaly + fit equals the input up to the rounding of that
\* difference (at most half a unit in its last place), and exactly wherever the
\* difference is a float.
C4_AdditiveUpToRounding ==
    (result.fn = "monthly_anomaly_series" /\ result.err = "none")
        => /\ FitIsRepeatedCycle(result.arg, result.out[2], result.out[3])
           /\ \A x \in Indices(result.out[1]) :
                  LET a == At3(result.out[1], x[1], x[2], x[3])[2]
                      f == AtBroadcast(result.out[2], x[1], x[2], x[3])[2]
                      v == AtBroadcast(Truncated(result.arg), x[1], x[2], x[3])[2]
                  IN  /\ 2 * Abs(a + f - v) <= Ulp(v - f)
                      /\ (v - f) % Ulp(v - f) = 0 => a + f = v

\* two years over four cells, the fit not constant in time, and an element whose
\* difference is rounded
C4_Witness ==
    /\ result.fn = "monthly_anomaly_series"
    /\ result.err = "none"
    /\ result.arg.shape = <<2 * MonthsPerYear, 2, 2>>
    /\ Matching(result.arg)
    /\ result.out[2].data[1] # result.out[2].data[1 + 4]
    /\ \E x \in Indices(result.out[1]) :
           At3(result.out[1], x[1], x[2], x[3])[2] + At3(result.out[2], x[1], x[2], x[3])[2]
               # At3(result.arg, x[1], x[2], x[3])[2]

\* what a call of fn on arg returns, computed from the arguments alone
Returned(fn, arg) ==
    CASE fn = "monthly_mean" -> monthly_mean(arg, lat, lon)
      [] fn = "monthly_regression" -> monthly_regression(arg)
      [] fn = "monthly_anomaly_series" -> monthly_anomaly_series(arg, lat, lon)

\* C7: the three functions leave the grid and the coordinate arrays they are given
\* unchanged and keep no state between calls: after any sequence of calls, a call
\* returns what its arguments alone determine, in arrays that are new (none of
\* them is, or is a view of, an array of the caller).
C7_CallsArePure ==
    [][/\ time_series' = time_series
       /\ lat' = lat
       /\ lon' = lon
       /\ (result' # result /\ result'.fn # "none")
              => /\ result'.src = "time_series" => result'.arg.buf = "caller"
                 /\ result'.err = Returned(result'.fn, result'.arg).err
                 /\ result'.out = Returned(result'.fn, result'.arg).out
                 /\ \A n \in 1..Len(result'.out) : result'.out[n].buf = "new"]_vars

\* monthly_anomaly_series has returned a two-year anomaly series that differs from
\* the grid it was computed from, and the grid is as it was passed
C7_Witness ==
    /\ result.fn = "monthly_anomaly_series"
    /\ result.err = "none"
    /\ result.arg.shape = <<2 * MonthsPerYear, 2, 2>>
    /\ Matching(result.arg)
    /\ result.out[1].data # result.arg.data
    /\ time_series = result.arg

\* C8: the harmonic-fit field does not depend on the order in which the loop takes
\* the cells: in every order each cell of the fit field is written once, with the
\* fit of that cell's own 12 monthly means, and the call returns what it returns
\* with the cells in the order of the code.
C8_FitIndependentOfCellOrder ==
    /\ pc = "loop"
           => \A cell \in Cells :
                  Column(serie_monthly_mean_fit_aux, cell[1], cell[2]).data
                      = IF cell \in done
                        THEN monthly_regression(
                                 Column(series_monthly_mean, cell[1], cell[2])).out[1].data
                        ELSE [t \in 1..MonthsPerYear |-> Num(0)]
    /\ result.fn = "monthly_anomaly_series"
           => /\ result.err = monthly_anomaly_series(result.arg, lat, lon).err
              /\ result.out = monthly_anomaly_series(result.arg, lat, lon).out

\* the loop has fitted the last cell of the code's order first, the others are
\* still to come, and the cells' fits differ
C8_Witness ==
    /\ pc = "loop"
    /\ Cardinality(Cells) = 4
    /\ done = {<<1, 1>>}
    /\ Column(serie_monthly_mean_fit_aux, 1, 1).data
           # monthly_regression(Column(series_monthly_mean, 0, 0)).out[1].data
    /\ Column(serie_monthly_mean_fit_aux, 1, 1).data
           # monthly_regression(Column(series_monthly_mean, 0, 1)).out[1].data

\* the characteristics a folder of variable v was named with
CharacteristicsOf(v, name) ==
    CHOOSE c \in Characteristics : \E f \in Frequencies : name = FolderName(v, c, f)

\* the positions of the dataset folders in the primary variable's directory
PrimaryFolders == {n \in 1..Len(tree[PrimaryVariable]) : tree[PrimaryVariable][n].isdir}

\* variable cv has a dataset folder of characteristics c
HasDataset(cv, c) ==
    \E n \in 1..Len(tree[cv]) :
        tree[cv][n].isdir /\ CharacteristicsOf(cv, tree[cv][n].name) = c

RECURSIVE AvailableFor(_, _)
\* the first n complementary variables that have a dataset of characteristics c
AvailableFor(c, n) ==
    IF n = 0 THEN <<>>
    ELSE IF HasDataset(ComplementaryVariables[n], c)
    THEN Append(AvailableFor(c, n - 1), ComplementaryVariables[n])
    ELSE AvailableFor(c, n - 1)

\* what the dictionary is to hold for the primary folder at position n
ExpectedEntry(n) ==
    LET c == CharacteristicsOf(PrimaryVariable, tree[PrimaryVariable][n].name)
    IN  <<c, AvailableFor(c, Len(ComplementaryVariables))>>

\* C10: every dataset folder of the primary variable appears exactly once in the
\* returned dictionary, under the key that is the number of complementary
\* variables with a dataset folder of the same characteristics (the folder name
\* without its first and last field), paired with the list of exactly those
\* variables, whose length is the key.
C10_CountsComplementaryVariables ==
    dict_datasets # NoDict
        => LET dict == dict_datasets[2]
           IN  /\ DOMAIN dict = {Len(ExpectedEntry(n)[2]) : n \in PrimaryFolders}
               /\ \A k \in DOMAIN dict :
                      \A x \in 1..Len(dict[k]) :
                          /\ Len(dict[k][x][2]) = k
                          /\ Cardinality({y \in 1..Len(dict[k]) : dict[k][y] = dict[k][x]})
                                 = Cardinality({n \in PrimaryFolders :
                                                   ExpectedEntry(n) = dict[k][x]})
               /\ \A n \in PrimaryFolders :
                      \E x \in 1..Len(dict[Len(ExpectedEntry(n)[2])]) :
                          dict[Len(ExpectedEntry(n)[2])][x] = ExpectedEntry(n)

\* a primary dataset whose characteristics span two fields is listed under key 1:
\* one complementary variable has it at another time frequency, the other has
\* only a plain file of that name
C10_Witness ==
    /\ dict_datasets # NoDict
    /\ DOMAIN dict_datasets[2] = {1}
    /\ dict_datasets[2][1] = << << <<"E", "_", "A">>, << <<"p", "r">> >> >> >>
    /\ \E n \in 1..Len(tree[<<"t", "a", "s">>]) : ~tree[<<"t", "a", "s">>][n].isdir
    /\ tree[PrimaryVariable][1].name = FolderName(PrimaryVariable, <<"E", "_", "A">>, <<"m">>)
    /\ tree[<<"p", "r">>][1].name = FolderName(<<"p", "r">>, <<"E", "_", "A">>, <<"d">>)

====
